---------------------------- MODULE Spec2Model ----------------------------
(***************************************************************************)
(* The Deutsch-Josza notebook (reference/algorithms/deutsch_josza.ipynb)   *)
(* as a state machine: one top-to-bottom run of its code cells.  The state *)
(* is the kernel namespace (the Python variables the cells assign), the    *)
(* gate list of the circuit "DeutschJosza", and what the run sent to the   *)
(* SDK and to the display.  Every statement of the cells is one action;    *)
(* a loop is one action per iteration.                                     *)
(***************************************************************************)
EXTENDS Integers, Sequences, FiniteSets, TLC

VARIABLES
    pc,             \* the statement the run is at
    bound,          \* names assigned so far in the kernel namespace
    n,              \* length of the query register
    oracleType,     \* 0 constant, 1 balanced
    oracleValue,    \* the value a constant oracle returns
    a,              \* hidden mask of the balanced oracle
    qr,             \* size of the quantum register "qr"
    cr,             \* size of the classical register "cr"
    djCircuit,      \* gates appended to the circuit "DeutschJosza", in order
    i,              \* the loop variable
    backend,        \* name of the backend of the current experiment
    shots,
    results,        \* what Q_program.execute returned
    answer,         \* counts dictionary: bitstring -> count
    threshold,
    filteredAnswer,
    removedCounts,
    executed,       \* log of the Q_program.execute calls
    plots,          \* dictionaries handed to plot_histogram
    stdout          \* what print wrote

vars == <<pc, bound, n, oracleType, oracleValue, a, qr, cr, djCircuit, i,
          backend, shots, results, answer, threshold, filteredAnswer,
          removedCounts, executed, plots, stdout>>

\* ------------------------------------------------------------------ bounds
MaxN == 3          \* register lengths 1..MaxN are explored
MaxKeys == 2       \* most distinct bitstrings in a returned counts dictionary

\* counts explored for the bitstrings other than the dominant one: far below,
\* just below and at the plotting threshold
NoiseCounts == {1, 29, 30}

\* ------------------------------------------------------- program constants
Shots == 1000

circuitName == "DeutschJosza"
Simulator == "ibmqx_hpc_qasm_simulator"
RealDevice == "ibmqx5"
OtherKey == "other_bitstring"

\* ------------------------------------------------------------ bit helpers
Bit(x, q) == (x \div (2 ^ q)) % 2

FlipBit(x, q) == IF Bit(x, q) = 0 THEN x + 2 ^ q ELSE x - 2 ^ q

\* the shift off by one: a & (1 << (k + 1))
MaskBitShifted(m, k) == Bit(m, k + 1) = 1

\* a & (1 << k), as a truth value
MaskBit(m, k) == Bit(m, k) = 1

\* ------------------------------------------------------------------ gates
Gate(op, qubits, cbits) == [op |-> op, qubits |-> qubits, cbits |-> cbits]

H(q) == Gate("h", <<q>>, <<>>)
X(q) == Gate("x", <<q>>, <<>>)
Iden(q) == Gate("iden", <<q>>, <<>>)
CX(c, t) == Gate("cx", <<c, t>>, <<>>)
Barrier == Gate("barrier", <<>>, <<>>)
Measure(q, c) == Gate("measure", <<q>>, <<c>>)


\* --------------------------------------------- what the SDK does with gates
\* x, cx and iden map a basis state to a basis state; the other gates leave
\* the basis label alone here (h is handled in ApplyGate).
ClassicalGate(g, x) ==
    CASE g.op = "x"    -> FlipBit(x, g.qubits[1])
      [] g.op = "cx"   -> IF Bit(x, g.qubits[1]) = 1
                          THEN FlipBit(x, g.qubits[2]) ELSE x
      [] OTHER         -> x

\* Amplitudes are kept as integers: every Hadamard is scaled by sqrt(2), so
\* an amplitude is zero here exactly when the true amplitude is zero.
ApplyGate(g, psi) ==
    CASE g.op = "h" ->
            LET q == g.qubits[1] IN
            [x \in DOMAIN psi |->
                IF Bit(x, q) = 0 THEN psi[x] + psi[FlipBit(x, q)]
                                 ELSE psi[FlipBit(x, q)] - psi[x]]
      [] g.op \in {"x", "cx"} ->
            [x \in DOMAIN psi |-> psi[ClassicalGate(g, x)]]
      [] OTHER -> psi

RECURSIVE RunGates(_, _)
RunGates(gs, psi) ==
    IF gs = <<>> THEN psi ELSE RunGates(Tail(gs), ApplyGate(Head(gs), psi))

\* |0...0> on nq qubits
ZeroState(nq) == [x \in 0 .. (2 ^ nq) - 1 |-> IF x = 0 THEN 1 ELSE 0]

\* The classical register after measuring basis state x: bit c is the measured
\* qubit's bit for every measure(q, c) of the circuit, 0 when never written.
Readout(gs, x, nc) ==
    [c \in 0 .. nc - 1 |->
        IF \E k \in 1 .. Len(gs) : gs[k].op = "measure" /\ gs[k].cbits[1] = c
        THEN LET k == CHOOSE k \in 1 .. Len(gs) :
                        gs[k].op = "measure" /\ gs[k].cbits[1] = c
             IN Bit(x, gs[k].qubits[1])
        ELSE 0]

Digit(b) == IF b = 1 THEN "1" ELSE "0"

\* The key of a counts dictionary: the classical register as a string,
\* cr[k-1] leftmost, cr[0] rightmost.
RECURSIVE BitString(_, _)
BitString(c, k) == IF k = 0 THEN "" ELSE Digit(c[k - 1]) \o BitString(c, k - 1)

\* The bitstrings a noise-free run of the circuit can produce.
IdealOutcomes(gs, nq, nc) ==
    LET psi == RunGates(gs, ZeroState(nq))
    IN {BitString(Readout(gs, x, nc), nc) : x \in {y \in DOMAIN psi : psi[y] # 0}}

\* Every bitstring of nc bits: a noisy device can return any of them.
AllOutcomes(nc) ==
    {BitString([c \in 0 .. nc - 1 |-> Bit(x, c)], nc) : x \in 0 .. (2 ^ nc) - 1}

ZeroString(nc) == BitString([c \in 0 .. nc - 1 |-> 0], nc)

RECURSIVE SumCounts(_, _)
SumCounts(d, keys) ==
    IF keys = {} THEN 0
    ELSE LET k == CHOOSE k \in keys : TRUE
         IN d[k] + SumCounts(d, keys \ {k})

Total(d) == SumCounts(d, DOMAIN d)

\* The counts dictionaries explored for a run of s shots: one bitstring of
\* `likely` dominates and takes what the others leave; fewer than MaxKeys
\* other bitstrings of `possible` appear, each with a count of NoiseCounts.
CountsOver(likely, possible, s) ==
    UNION {
      UNION {
        { [k \in others \cup {dom} |->
              IF k = dom THEN s - SumCounts(noise, others) ELSE noise[k]]
          : noise \in [others -> NoiseCounts] }
        : others \in {o \in SUBSET (possible \ {dom}) : Cardinality(o) < MaxKeys} }
      : dom \in likely }

\* Q_program.execute([circuitName], backend, shots): the results it can return.
\* The job may time out on either backend; the simulator is noise-free, the
\* device can add any bitstring to the ideal ones.
Execute(gs, nq, nc, be, s) ==
    LET ideal == IdealOutcomes(gs, nq, nc)
        possible == IF be = Simulator THEN ideal ELSE AllOutcomes(nc)
    IN {[status |-> "ERROR", counts |-> <<>>]}
       \cup {[status |-> "DONE", counts |-> d] : d \in CountsOver(ideal, possible, s)}

\* int(0.03 * shots)
Threshold(s) == (3 * s) \div 100

\* the comparison strict: v > threshold
FilterStrict(d, t) == [k \in {j \in DOMAIN d : d[j] > t} |-> d[k]]

\* {k: v for k,v in answer.items() if v >= threshold}
Filter(d, t) == [k \in {j \in DOMAIN d : d[j] >= t} |-> d[k]]

\* np.sum([v for k,v in answer.items() if v < threshold])
Removed(d, t) == SumCounts(d, {j \in DOMAIN d : d[j] < t})

\* d[key] = value
SetItem(d, key, value) ==
    [k \in DOMAIN d \cup {key} |-> IF k = key THEN value ELSE d[k]]

circuitVars == <<n, oracleType, oracleValue, a, qr, cr, djCircuit>>
runVars == <<backend, shots, results, answer, threshold, filteredAnswer,
             removedCounts, executed, plots>>

\* ------------------------------------------------------------------- Init
\* The cell "n = 15" has run; the model explores the lengths 1..MaxN.
Init ==
    /\ pc = "program"
    /\ n \in 1 .. MaxN
    /\ bound = {"n"}
    /\ oracleType = 0 /\ oracleValue = 0 /\ a = 0
    /\ qr = 0 /\ cr = 0
    /\ djCircuit = <<>>
    /\ i = 0
    /\ backend = "" /\ shots = 0
    /\ results = [status |-> "", counts |-> <<>>]
    /\ answer = <<>>
    /\ threshold = 0
    /\ filteredAnswer = <<>>
    /\ removedCounts = 0
    /\ executed = <<>>
    /\ plots = <<>>
    /\ stdout = <<>>


\* --------------------------------------------------- the construction cell
\* Q_program = QuantumProgram(); Q_program.set_api(...)
NewProgram ==
    /\ pc = "program"
    /\ pc' = "choose"
    /\ bound' = bound \cup {"Q_program"}
    /\ UNCHANGED <<circuitVars, i, runVars, stdout>>

\* the mask drawn from 0: np.random.randint(0, 2**n)
ChooseOracleZeroMask ==
    /\ pc = "choose"
    /\ \E t \in {0, 1}, v \in {0, 1} :
        /\ oracleType' = t
        /\ oracleValue' = v
        /\ IF t = 0
           THEN /\ stdout' = Append(stdout, <<"The oracle returns a constant value ", v>>)
                /\ a' = a
                /\ bound' = bound \cup {"oracleType", "oracleValue"}
           ELSE /\ stdout' = Append(stdout, <<"The oracle returns a balanced function">>)
                /\ a' \in 0 .. (2 ^ n) - 1
                /\ bound' = bound \cup {"oracleType", "oracleValue", "a"}
    /\ pc' = "registers"
    /\ UNCHANGED <<n, qr, cr, djCircuit, i, runVars>>

\* oracleType, oracleValue = np.random.randint(2), np.random.randint(2)
\* and the if/else that prints the kind and draws a for a balanced oracle
ChooseOracle ==
    /\ pc = "choose"
    /\ \E t \in {0, 1}, v \in {0, 1} :
        /\ oracleType' = t
        /\ oracleValue' = v
        /\ IF t = 0
           THEN /\ stdout' = Append(stdout, <<"The oracle returns a constant value ", v>>)
                /\ a' = a
                /\ bound' = bound \cup {"oracleType", "oracleValue"}
           ELSE /\ stdout' = Append(stdout, <<"The oracle returns a balanced function">>)
                /\ a' \in 1 .. (2 ^ n) - 1
                /\ bound' = bound \cup {"oracleType", "oracleValue", "a"}
    /\ pc' = "registers"
    /\ UNCHANGED <<n, qr, cr, djCircuit, i, runVars>>

\* the quantum register one qubit short: create_quantum_register("qr", n)
CreateRegistersShort ==
    /\ pc = "registers"
    /\ qr' = n
    /\ cr' = n
    /\ djCircuit' = <<>>
    /\ i' = 0
    /\ bound' = bound \cup {"qr", "cr", "circuitName", "djCircuit"}
    /\ pc' = "h_query"
    /\ UNCHANGED <<n, oracleType, oracleValue, a, runVars, stdout>>

\* qr, cr and djCircuit = Q_program.create_circuit(circuitName, [qr], [cr])
CreateRegisters ==
    /\ pc = "registers"
    /\ qr' = n + 1
    /\ cr' = n
    /\ djCircuit' = <<>>
    /\ i' = 0
    /\ bound' = bound \cup {"qr", "cr", "circuitName", "djCircuit"}
    /\ pc' = "h_query"
    /\ UNCHANGED <<n, oracleType, oracleValue, a, runVars, stdout>>

\* for i in range(n): djCircuit.h(qr[i])     (i counts the iterations done)
HadamardQuery ==
    /\ pc = "h_query"
    /\ i < n
    /\ djCircuit' = Append(djCircuit, H(i))
    /\ i' = IF i + 1 < n THEN i + 1 ELSE 0
    /\ pc' = IF i + 1 < n THEN "h_query" ELSE "x_answer"
    /\ bound' = bound \cup {"i"}
    /\ UNCHANGED <<n, oracleType, oracleValue, a, qr, cr, runVars, stdout>>

\* the flip of the answer qubit left out
FlipAnswerSkipped ==
    /\ pc = "x_answer"
    /\ pc' = "h_answer"
    /\ UNCHANGED <<bound, circuitVars, i, runVars, stdout>>

\* djCircuit.x(qr[n])
FlipAnswer ==
    /\ pc = "x_answer"
    /\ djCircuit' = Append(djCircuit, X(n))
    /\ pc' = "h_answer"
    /\ UNCHANGED <<bound, n, oracleType, oracleValue, a, qr, cr, i, runVars, stdout>>

\* djCircuit.h(qr[n])
HadamardAnswer ==
    /\ pc = "h_answer"
    /\ djCircuit' = Append(djCircuit, H(n))
    /\ pc' = "barrier1"
    /\ UNCHANGED <<bound, n, oracleType, oracleValue, a, qr, cr, i, runVars, stdout>>

\* djCircuit.barrier()   (beginning of the oracle)
BarrierBegin ==
    /\ pc = "barrier1"
    /\ djCircuit' = Append(djCircuit, Barrier)
    /\ pc' = "oracle"
    /\ UNCHANGED <<bound, n, oracleType, oracleValue, a, qr, cr, i, runVars, stdout>>

\* the constant oracle appended twice
OracleConstantTwice ==
    /\ pc = "oracle"
    /\ oracleType = 0
    /\ djCircuit' = Append(Append(djCircuit, IF oracleValue = 1 THEN X(n) ELSE Iden(n)),
                           IF oracleValue = 1 THEN X(n) ELSE Iden(n))
    /\ pc' = "barrier2"
    /\ UNCHANGED <<bound, n, oracleType, oracleValue, a, qr, cr, i, runVars, stdout>>

\* the branches of the constant oracle swapped
OracleConstantSwapped ==
    /\ pc = "oracle"
    /\ oracleType = 0
    /\ djCircuit' = Append(djCircuit, IF oracleValue = 1 THEN Iden(n) ELSE X(n))
    /\ pc' = "barrier2"
    /\ UNCHANGED <<bound, n, oracleType, oracleValue, a, qr, cr, i, runVars, stdout>>

\* if oracleType == 0: x(qr[n]) if oracleValue == 1 else iden(qr[n])
OracleConstant ==
    /\ pc = "oracle"
    /\ oracleType = 0
    /\ djCircuit' = Append(djCircuit, IF oracleValue = 1 THEN X(n) ELSE Iden(n))
    /\ pc' = "barrier2"
    /\ UNCHANGED <<bound, n, oracleType, oracleValue, a, qr, cr, i, runVars, stdout>>

\* else: for i in range(n): if (a & (1 << i)): djCircuit.cx(qr[i], qr[n])
OracleBalanced ==
    /\ pc = "oracle"
    /\ oracleType # 0
    /\ i < n
    /\ djCircuit' = IF MaskBit(a, i) THEN Append(djCircuit, CX(i, n)) ELSE djCircuit
    /\ i' = IF i + 1 < n THEN i + 1 ELSE 0
    /\ pc' = IF i + 1 < n THEN "oracle" ELSE "barrier2"
    /\ UNCHANGED <<bound, n, oracleType, oracleValue, a, qr, cr, runVars, stdout>>

\* the closing barrier left out
BarrierEndMissing ==
    /\ pc = "barrier2"
    /\ pc' = "h_final"
    /\ UNCHANGED <<bound, circuitVars, i, runVars, stdout>>

\* djCircuit.barrier()   (end of the oracle)
BarrierEnd ==
    /\ pc = "barrier2"
    /\ djCircuit' = Append(djCircuit, Barrier)
    /\ pc' = "h_final"
    /\ UNCHANGED <<bound, n, oracleType, oracleValue, a, qr, cr, i, runVars, stdout>>

\* for i in range(n): djCircuit.h(qr[i])
HadamardFinal ==
    /\ pc = "h_final"
    /\ i < n
    /\ djCircuit' = Append(djCircuit, H(i))
    /\ i' = IF i + 1 < n THEN i + 1 ELSE 0
    /\ pc' = IF i + 1 < n THEN "h_final" ELSE "measure"
    /\ UNCHANGED <<bound, n, oracleType, oracleValue, a, qr, cr, runVars, stdout>>

\* the measurement loop left after its first iteration
MeasureQueryOnce ==
    /\ pc = "measure"
    /\ i < n
    /\ djCircuit' = Append(djCircuit, Measure(i, i))
    /\ i' = 0
    /\ pc' = "sim_backend"
    /\ UNCHANGED <<bound, n, oracleType, oracleValue, a, qr, cr, runVars, stdout>>

\* for i in range(n): djCircuit.measure(qr[i], cr[i])
MeasureQuery ==
    /\ pc = "measure"
    /\ i < n
    /\ djCircuit' = Append(djCircuit, Measure(i, i))
    /\ i' = IF i + 1 < n THEN i + 1 ELSE 0
    /\ pc' = IF i + 1 < n THEN "measure" ELSE "sim_backend"
    /\ UNCHANGED <<bound, n, oracleType, oracleValue, a, qr, cr, runVars, stdout>>

\* ------------------------------------------------------ the simulator cell
\* backend = "ibmqx_hpc_qasm_simulator"; shots = 1000
SimSetup ==
    /\ pc = "sim_backend"
    /\ backend' = Simulator
    /\ shots' = Shots
    /\ bound' = bound \cup {"backend", "shots"}
    /\ pc' = "sim_execute"
    /\ UNCHANGED <<circuitVars, i, results, answer, threshold, filteredAnswer,
                   removedCounts, executed, plots, stdout>>

\* results = Q_program.execute([circuitName], backend=backend, shots=shots)
SimExecute ==
    /\ pc = "sim_execute"
    /\ results' \in Execute(djCircuit, qr, cr, backend, shots)
    /\ executed' = Append(executed, [name |-> circuitName, backend |-> backend,
                                     shots |-> shots, circuit |-> djCircuit])
    /\ bound' = bound \cup {"results"}
    /\ pc' = "sim_counts"
    /\ UNCHANGED <<circuitVars, i, backend, shots, answer, threshold,
                   filteredAnswer, removedCounts, plots, stdout>>

\* answer = results.get_counts(circuitName): raises when the job failed
SimGetCounts ==
    /\ pc = "sim_counts"
    /\ IF results.status = "ERROR"
       THEN /\ pc' = "raised"
            /\ UNCHANGED <<answer, bound>>
       ELSE /\ pc' = "sim_plot"
            /\ answer' = results.counts
            /\ bound' = bound \cup {"answer"}
    /\ UNCHANGED <<circuitVars, i, backend, shots, results, threshold,
                   filteredAnswer, removedCounts, executed, plots, stdout>>

\* plot_histogram(answer)
SimPlot ==
    /\ pc = "sim_plot"
    /\ plots' = Append(plots, answer)
    /\ pc' = "real_backend"
    /\ UNCHANGED <<bound, circuitVars, i, backend, shots, results, answer,
                   threshold, filteredAnswer, removedCounts, executed, stdout>>

\* ---------------------------------------------------- the real-device cell
\* backend = "ibmqx5"; shots = 1000
RealSetup ==
    /\ pc = "real_backend"
    /\ backend' = RealDevice
    /\ shots' = Shots
    /\ pc' = "real_execute"
    /\ UNCHANGED <<bound, circuitVars, i, results, answer, threshold,
                   filteredAnswer, removedCounts, executed, plots, stdout>>

\* results = Q_program.execute([circuitName], backend=backend, shots=shots,
\*                             timeout=480)
RealExecute ==
    /\ pc = "real_execute"
    /\ results' \in Execute(djCircuit, qr, cr, backend, shots)
    /\ executed' = Append(executed, [name |-> circuitName, backend |-> backend,
                                     shots |-> shots, circuit |-> djCircuit])
    /\ pc' = "real_counts"
    /\ UNCHANGED <<bound, circuitVars, i, backend, shots, answer, threshold,
                   filteredAnswer, removedCounts, plots, stdout>>

\* the error swallowed: the cell goes on with an empty dictionary
RealGetCountsSwallows ==
    /\ pc = "real_counts"
    /\ pc' = "real_threshold"
    /\ answer' = IF results.status = "ERROR" THEN <<>> ELSE results.counts
    /\ UNCHANGED <<bound, circuitVars, i, backend, shots, results, threshold,
                   filteredAnswer, removedCounts, executed, plots, stdout>>

\* answer = results.get_counts(circuitName): raises QISKitError on a time out
RealGetCounts ==
    /\ pc = "real_counts"
    /\ IF results.status = "ERROR"
       THEN /\ pc' = "raised"
            /\ UNCHANGED answer
       ELSE /\ pc' = "real_threshold"
            /\ answer' = results.counts
    /\ UNCHANGED <<bound, circuitVars, i, backend, shots, results, threshold,
                   filteredAnswer, removedCounts, executed, plots, stdout>>

\* threshold = int(0.03 * shots)
RealThreshold ==
    /\ pc = "real_threshold"
    /\ threshold' = Threshold(shots)
    /\ bound' = bound \cup {"threshold"}
    /\ pc' = "real_filter"
    /\ UNCHANGED <<circuitVars, i, backend, shots, results, answer,
                   filteredAnswer, removedCounts, executed, plots, stdout>>

\* filteredAnswer = {k: v for k,v in answer.items() if v >= threshold}
RealFilter ==
    /\ pc = "real_filter"
    /\ filteredAnswer' = Filter(answer, threshold)
    /\ bound' = bound \cup {"filteredAnswer"}
    /\ pc' = "real_removed"
    /\ UNCHANGED <<circuitVars, i, backend, shots, results, answer, threshold,
                   removedCounts, executed, plots, stdout>>

\* removedCounts = np.sum([ v for k,v in answer.items() if v < threshold ])
RealRemoved ==
    /\ pc = "real_removed"
    /\ removedCounts' = Removed(answer, threshold)
    /\ bound' = bound \cup {"removedCounts"}
    /\ pc' = "real_other"
    /\ UNCHANGED <<circuitVars, i, backend, shots, results, answer, threshold,
                   filteredAnswer, executed, plots, stdout>>

\* filteredAnswer['other_bitstring'] = removedCounts
RealOther ==
    /\ pc = "real_other"
    /\ filteredAnswer' = SetItem(filteredAnswer, OtherKey, removedCounts)
    /\ pc' = "real_plot"
    /\ UNCHANGED <<bound, circuitVars, i, backend, shots, results, answer,
                   threshold, removedCounts, executed, plots, stdout>>

\* plot_histogram(filteredAnswer)
RealPlot ==
    /\ pc = "real_plot"
    /\ plots' = Append(plots, filteredAnswer)
    /\ pc' = "real_print"
    /\ UNCHANGED <<bound, circuitVars, i, backend, shots, results, answer,
                   threshold, filteredAnswer, removedCounts, executed, stdout>>

\* print(filteredAnswer)
RealPrint ==
    /\ pc = "real_print"
    /\ stdout' = Append(stdout, <<filteredAnswer>>)
    /\ pc' = "done"
    /\ UNCHANGED <<bound, circuitVars, i, runVars>>

Next ==
    \/ NewProgram
    \/ ChooseOracle
    \/ CreateRegisters
    \/ HadamardQuery
    \/ FlipAnswer
    \/ HadamardAnswer
    \/ BarrierBegin
    \/ OracleConstant
    \/ OracleBalanced
    \/ BarrierEnd
    \/ HadamardFinal
    \/ MeasureQuery
    \/ SimSetup
    \/ SimExecute
    \/ SimGetCounts
    \/ SimPlot
    \/ RealSetup
    \/ RealExecute
    \/ RealGetCounts
    \/ RealThreshold
    \/ RealFilter
    \/ RealRemoved
    \/ RealOther
    \/ RealPlot
    \/ RealPrint

Spec == Init /\ [][Next]_vars

\* ------------------------------------------------------------ type sanity
TypeOK ==
    /\ n \in 1 .. MaxN
    /\ oracleType \in {0, 1} /\ oracleValue \in {0, 1}
    /\ i \in 0 .. n - 1
    /\ Len(executed) <= 2

\* ------------------------------------------- reading the circuit back
\* Positions of the barriers of a gate list, in order.
BarrierPositions(gs) == {k \in 1 .. Len(gs) : gs[k].op = "barrier"}

Min(S) == CHOOSE k \in S : \A j \in S : k <= j
Max(S) == CHOOSE k \in S : \A j \in S : j <= k

\* The gates before the first barrier, between the first and the second, and
\* after the second (empty while the barrier that opens the part is missing).
Preparation(gs) ==
    IF BarrierPositions(gs) = {} THEN gs
    ELSE SubSeq(gs, 1, Min(BarrierPositions(gs)) - 1)

OracleBlock(gs) ==
    LET B == BarrierPositions(gs) IN
    IF B = {} THEN <<>>
    ELSE IF Cardinality(B) = 1 THEN SubSeq(gs, Min(B) + 1, Len(gs))
    ELSE SubSeq(gs, Min(B) + 1, Min(B \ {Min(B)}) - 1)

Readback(gs) ==
    LET B == BarrierPositions(gs) IN
    IF Cardinality(B) < 2 THEN <<>>
    ELSE SubSeq(gs, Min(B \ {Min(B)}) + 1, Len(gs))

IsPrefix(s, t) == Len(s) <= Len(t) /\ s = SubSeq(t, 1, Len(s))

Count(gs, P(_)) == Cardinality({k \in 1 .. Len(gs) : P(gs[k])})

\* The value the oracle block writes to the answer qubit for the query x
\* (x < 2^n, so the answer qubit starts at 0).
RECURSIVE RunClassical(_, _)
RunClassical(gs, x) ==
    IF gs = <<>> THEN x ELSE RunClassical(Tail(gs), ClassicalGate(Head(gs), x))

OracleF(x) == Bit(RunClassical(OracleBlock(djCircuit), x), n)

\* parity of (m AND x) over the low k bits
RECURSIVE Parity(_, _, _)
Parity(m, x, k) ==
    IF k = 0 THEN 0 ELSE (Bit(m, k - 1) * Bit(x, k - 1) + Parity(m, x, k - 1)) % 2

Queries == 0 .. (2 ^ n) - 1

\* the run has appended every gate of the construction cell
Constructed == pc \notin {"program", "choose", "registers", "h_query", "x_answer",
                          "h_answer", "barrier1", "oracle", "barrier2", "h_final",
                          "measure"}

\* the oracle block is closed: the statement after the oracle if/else is reached
OracleDone == pc \notin {"program", "choose", "registers", "h_query", "x_answer",
                         "h_answer", "barrier1", "oracle"}

PrepGates == [k \in 1 .. n + 2 |->
                 IF k <= n THEN H(k - 1) ELSE IF k = n + 1 THEN X(n) ELSE H(n)]

ReadGates == [k \in 1 .. 2 * n |->
                 IF k <= n THEN H(k - 1) ELSE Measure(k - n - 1, k - n - 1)]

IsOracleGate(g) ==
    \/ g.op \in {"x", "iden"} /\ g.qubits = <<n>>
    \/ g.op = "cx" /\ g.qubits[2] = n /\ g.qubits[1] \in 0 .. n - 1

\* ================================================================== claims

\* C1: a noise-free execution of the constructed circuit measures the first
\* register as the all-zero bitstring when the oracle is constant and as a
\* non-zero bitstring when it is balanced, on every one of the shots.
C1_IdealMeasurement ==
    pc = "sim_plot" =>
        /\ Total(answer) = Shots
        /\ oracleType = 0 => DOMAIN answer = {ZeroString(n)}
        /\ oracleType = 1 => ZeroString(n) \notin DOMAIN answer

C1_Witness ==
    pc = "sim_plot" /\ oracleType = 1 /\ a = 3 /\ n = 2 /\ answer = [k \in {"11"} |-> 1000]

\* C2: the gates are appended in the fixed order Hadamards on the query qubits,
\* X and H on the answer qubit, barrier, oracle gates, barrier, Hadamards on the
\* query qubits, measurements qr[i] -> cr[i]; at every moment the gate list is a
\* prefix of that order, and the finished list is all of it.
C2_GateOrder ==
    /\ Cardinality(BarrierPositions(djCircuit)) <= 2
    /\ IsPrefix(Preparation(djCircuit), PrepGates)
    /\ BarrierPositions(djCircuit) # {} => Preparation(djCircuit) = PrepGates
    /\ LET blk == OracleBlock(djCircuit)
       IN \A k \in 1 .. Len(blk) : IsOracleGate(blk[k])
    /\ IsPrefix(Readback(djCircuit), ReadGates)
    /\ Constructed => /\ Cardinality(BarrierPositions(djCircuit)) = 2
                      /\ Readback(djCircuit) = ReadGates

C2_Witness ==
    /\ pc = "sim_backend" /\ n = 2 /\ oracleType = 1 /\ a = 2
    /\ djCircuit = <<H(0), H(1), X(2), H(2), Barrier, CX(1, 2), Barrier,
                     H(0), H(1), Measure(0, 0), Measure(1, 1)>>

\* C3: the oracle is queried exactly once: the finished circuit has exactly two
\* barriers, the oracle's gates (one x/iden, or the CX gates, none repeated) all
\* lie between them, and outside them the only x is the one that prepares the
\* answer qubit and there is no iden and no cx.
C3_OneQuery ==
    Constructed =>
        LET blk == OracleBlock(djCircuit)
            outside == Preparation(djCircuit) \o Readback(djCircuit)
        IN /\ Cardinality(BarrierPositions(djCircuit)) = 2
           /\ oracleType = 0 => Len(blk) = 1
           /\ oracleType = 1 => /\ \A j, k \in 1 .. Len(blk) : blk[j] = blk[k] => j = k
                                /\ Len(blk) >= 1
           /\ Count(outside, LAMBDA g : g.op \in {"cx", "iden"}) = 0
           /\ Count(outside, LAMBDA g : g.op = "x") = 1

C3_Witness ==
    /\ Constructed /\ oracleType = 0 /\ oracleValue = 1
    /\ OracleBlock(djCircuit) = <<X(n)>>

\* C4: the balanced oracle computes f(x) = parity of (a AND x), and f is
\* balanced: 2^(n-1) of the 2^n inputs give 0 and 2^(n-1) give 1.
C4_InnerProductBalanced ==
    (OracleDone /\ oracleType = 1) =>
        LET blk == OracleBlock(djCircuit)
            f == [x \in Queries |-> Bit(RunClassical(blk, x), n)]
        IN
        /\ \A x \in Queries : f[x] = Parity(a, x, n)
        /\ Cardinality({x \in Queries : f[x] = 0}) = 2 ^ (n - 1)
        /\ Cardinality({x \in Queries : f[x] = 1}) = 2 ^ (n - 1)

C4_Witness ==
    /\ OracleDone /\ oracleType = 1 /\ n = 3 /\ a = 5
    /\ OracleF(1) = 1 /\ OracleF(5) = 0 /\ OracleF(2) = 0

RealCalls == {k \in 1 .. Len(executed) : executed[k].backend = RealDevice}

RealCellPcs == {"real_backend", "real_execute", "real_counts", "real_threshold",
                "real_filter", "real_removed", "real_other", "real_plot",
                "real_print", "done"}

SimCellPcs == {"sim_backend", "sim_execute", "sim_counts", "sim_plot"}

\* C5: when the execution on the real device times out, the error surfaces at
\* results.get_counts and nothing recovers from it: execute is called once in
\* the cell, the run stops there, and threshold, filteredAnswer and
\* removedCounts are never assigned, nothing more is plotted or printed.
C5_TimeoutStopsCell ==
    /\ Cardinality(RealCalls) <= 1
    /\ (backend = RealDevice /\ results.status = "ERROR" /\ RealCalls # {}) =>
          /\ pc \in {"real_counts", "raised"}
          /\ Cardinality(RealCalls) = 1
          /\ bound \cap {"threshold", "filteredAnswer", "removedCounts"} = {}
          /\ Len(plots) = 1
          /\ Len(stdout) = 1

C5_Witness ==
    /\ pc = "raised" /\ backend = RealDevice /\ results.status = "ERROR"
    /\ Len(executed) = 2

\* what every Q_program.execute call so far was handed
C6_Submitted ==
    /\ \A k \in 1 .. Len(executed) :
          /\ executed[k].name = circuitName
          /\ executed[k].circuit = djCircuit
          /\ Count(executed[k].circuit, LAMBDA g : g.op = "measure") = n
          /\ Count(executed[k].circuit, LAMBDA g : g.op = "h") = 2 * n + 1
          /\ Cardinality(BarrierPositions(executed[k].circuit)) = 2
    /\ Len(executed) = 2 =>
          /\ executed[1].backend = Simulator /\ executed[2].backend = RealDevice
          /\ executed[1].circuit = executed[2].circuit

\* C6: execute is called only once every gate and measurement is appended, the
\* two experiment cells change none of n, oracleType, oracleValue, a and the
\* gate list, and the real-device call submits the circuit the simulator ran.
C6_SameCircuit ==
    /\ []C6_Submitted
    /\ [][(pc \in (SimCellPcs \cup RealCellPcs)) => (circuitVars' = circuitVars)]_vars

C6_Witness ==
    /\ Len(executed) = 2 /\ pc = "real_counts" /\ oracleType = 1
    /\ n = 2 /\ a = 3 /\ executed[2].circuit = djCircuit /\ Len(djCircuit) = 12

\* C7: a constant oracle appends exactly one gate, on the answer qubit only: x
\* when oracleValue is 1 and iden when it is 0; it returns oracleValue for
\* every input.
C7_ConstantOracle ==
    (OracleDone /\ oracleType = 0) =>
        /\ OracleBlock(djCircuit) =
              <<[op |-> IF oracleValue = 1 THEN "x" ELSE "iden",
                 qubits |-> <<n>>, cbits |-> <<>>]>>
        /\ \A x \in Queries : OracleF(x) = oracleValue

C7_Witness ==
    /\ OracleDone /\ oracleType = 0 /\ oracleValue = 0 /\ n = 2
    /\ OracleBlock(djCircuit) = <<Iden(2)>> /\ OracleF(3) = 0

\* C8: for a balanced oracle 1 <= a <= 2^n - 1, and the oracle block holds
\* between 1 and n CX gates: exactly one cx(qr[i], qr[n]) for each bit i set
\* in a and none for a clear bit.
C8_MaskAndCX ==
    /\ "a" \in bound => (oracleType = 1 /\ 1 <= a /\ a <= (2 ^ n) - 1)
    /\ (OracleDone /\ oracleType = 1) =>
          LET blk == OracleBlock(djCircuit) IN
          /\ 1 <= Len(blk) /\ Len(blk) <= n
          /\ \A k \in 1 .. Len(blk) : blk[k].op = "cx"
          /\ \A b \in 0 .. n - 1 :
                Count(blk, LAMBDA g : g = CX(b, n)) = IF (a \div 2 ^ b) % 2 = 1 THEN 1 ELSE 0

C8_Witness ==
    /\ OracleDone /\ oracleType = 1 /\ n = 3 /\ a = 6
    /\ OracleBlock(djCircuit) = <<CX(1, 3), CX(2, 3)>>

\* C9: qr has n+1 qubits and cr has n bits; every gate and measurement uses an
\* index inside its register, a measurement maps qr[i] to cr[i] for the same
\* i < n, the answer qubit is never measured, and in the finished circuit every
\* classical bit is written exactly once.
C9_RegisterIndices ==
    "qr" \in bound =>
        /\ qr = n + 1 /\ cr = n
        /\ \A k \in 1 .. Len(djCircuit) :
              LET g == djCircuit[k] IN
              /\ \A j \in 1 .. Len(g.qubits) : g.qubits[j] \in 0 .. qr - 1
              /\ \A j \in 1 .. Len(g.cbits) : g.cbits[j] \in 0 .. cr - 1
              /\ g.op = "measure" => (g.qubits = g.cbits /\ g.qubits[1] # n)
              /\ g.op = "cx" => g.qubits[1] # g.qubits[2]
        /\ Constructed =>
              \A c \in 0 .. cr - 1 :
                 Count(djCircuit, LAMBDA g : g.op = "measure" /\ g.cbits = <<c>>) = 1

C9_Witness ==
    /\ Constructed /\ n = 3 /\ qr = 4 /\ cr = 3
    /\ Count(djCircuit, LAMBDA g : g.op = "measure") = 3

============================================================================
